---- MODULE Spec2Model ----
(***************************************************************************)
(* FullscreenManager of @nocobase/plugin-block-fullscreen: a keyed store   *)
(* of saved element states, the style overrides it applies and reverts,    *)
(* the siblings it hides and restores, the style element it injects and    *)
(* the periodic cleanup timer.  Every public method runs to completion on  *)
(* the UI event loop, so each one is a single action of the model.         *)
(***************************************************************************)
EXTENDS Integers, Sequences, FiniteSets, TLC

VARIABLES
  style,                  \* element.style of every element (inline styles)
  parentElement,          \* element.parentElement of every element
  elemId,                 \* element.id of every element
  elementStates,          \* FullscreenManager.elementStates (a Map, in insertion order)
  fullscreenStyleElement, \* FullscreenManager.fullscreenStyleElement
  head,                   \* the <style> elements appended to document.head
  cleanupTimer,           \* FullscreenManager.cleanupTimer
  timers,                 \* the pending setTimeout timers of the event loop
  lastCall,               \* observation: the last call made to the manager
  everEntered,            \* observation: elements toggleFullscreen(e, true) was called on
  sessionInfo,            \* observation: per key of elementStates, since the key is in
                          \* the store: the element entered, the last <style> element
                          \* injected for it, the elements first hidden for it
  componentIsFullscreen   \* FullscreenBlock: the isFullscreen state of each component

vars == <<style, parentElement, elemId, elementStates, fullscreenStyleElement,
          head, cleanupTimer, timers, lastCall, everEntered, sessionInfo,
          componentIsFullscreen>>

----------------------------------------------------------------------------
(* Bounds of the model *)

\* at most this many <style> elements are in document.head at a time
MaxStyleBlocks == 2

\* a custom style is at most this many tokens long
MaxTokens == 3

----------------------------------------------------------------------------
(* The document *)

NULL == "null"

\* observation: the <style> element injected for a session is no longer in the document
REMOVED == "removed"

\* position of every element in document order
ElementOrder == <<"body", "hdr", "P", "A", "N", "M", "B", "C">>

Elements == {ElementOrder[i] : i \in DOMAIN ElementOrder}

\* the elements the manager is asked to show fullscreen
Containers == {"A", "N"}

\* the elements that can be removed from the document
Detachable == {"N"}

\* the tree when the page is rendered: body > (hdr, P), P > (A, B, C), A > (N, M)
InitialParent ==
  [e \in Elements |->
     CASE e = "body" -> NULL
       [] e \in {"hdr", "P"} -> "body"
       [] e \in {"A", "B", "C"} -> "P"
       [] OTHER -> "A"]

\* display of an element with no inline display (from the page's style sheets)
SheetDisplay(e) == IF e = "hdr" THEN "flex" ELSE "block"

STYLES_TO_SAVE ==
  <<"position", "top", "left", "width", "height", "zIndex", "background",
    "overflow", "margin", "padding", "marginBottom", "boxSizing", "maxHeight",
    "display">>

StyleProps == {STYLES_TO_SAVE[i] : i \in DOMAIN STYLES_TO_SAVE}

FULLSCREEN_STYLES ==
  [p \in StyleProps |->
     CASE p = "position" -> "fixed"
       [] p = "top" -> "0"
       [] p = "left" -> "0"
       [] p = "width" -> "100vw"
       [] p = "height" -> "100vh"
       [] p = "zIndex" -> "9999"
       [] p = "background" -> "#fff"
       [] p = "overflow" -> "auto"
       [] p = "margin" -> "0"
       [] p = "padding" -> "0"
       [] p = "marginBottom" -> "0"
       [] p = "boxSizing" -> "border-box"
       [] p = "maxHeight" -> "100vh"
       [] OTHER -> "block"]

\* an element with no inline style
NoStyle == [p \in StyleProps |-> ""]

\* the inline style React gives the root <div> of a FullscreenBlock
CONTAINER_BASE_STYLE ==
  [NoStyle EXCEPT !["width"] = "100%", !["display"] = "flex", !["position"] = "relative"]

\* CONTAINER_BASE_STYLE with DESIGN_MODE_STYLE spread over it
DESIGN_MODE_STYLE ==
  [CONTAINER_BASE_STYLE EXCEPT !["background"] = "rgba(0, 153, 255, 0.06)",
                               !["padding"] = "16px 8px 8px 8px",
                               !["marginBottom"] = "8px"]

\* the placeholder of a custom fullscreen style, and the custom styles tried
PLACEHOLDER == "${blockId}"

StyleInputs == {<<>>, <<PLACEHOLDER, " { color: red; }">>}

\* the custom styles tried on processFullscreenStyle: every text of at most
\* MaxTokens tokens, the placeholder among them
StyleTokens == {PLACEHOLDER, ".title", " { color: red; }"}

StyleTexts == UNION {[1..n -> StyleTokens] : n \in 0..MaxTokens}

\* the ids tried on processFullscreenStyle; the last holds a replacement pattern
BlockIds == {"a", "", "x$&"}

DefaultIntervalMs == 300000

Intervals == {DefaultIntervalMs}

----------------------------------------------------------------------------
(* DOM primitives, on a state record s *)

Cur ==
  [style |-> style, parentElement |-> parentElement, elemId |-> elemId,
   elementStates |-> elementStates,
   fullscreenStyleElement |-> fullscreenStyleElement, head |-> head,
   cleanupTimer |-> cleanupTimer, timers |-> timers]

\* Node.contains: b is a or a descendant of a
RECURSIVE Contains(_, _, _)
Contains(s, a, b) ==
  IF b = NULL THEN FALSE
  ELSE IF a = b THEN TRUE
  ELSE Contains(s, a, s.parentElement[b])

\* parent.children, in document order
Children(s, p) == SelectSeq(ElementOrder, LAMBDA x : s.parentElement[x] = p)

\* the element is in the document
IsConnected(s, e) == Contains(s, "body", e)

\* window.getComputedStyle(e).display; empty for an element outside the document
ComputedDisplay(s, e) ==
  IF ~IsConnected(s, e) THEN ""
  ELSE IF s.style[e]["display"] # "" THEN s.style[e]["display"]
  ELSE SheetDisplay(e)

\* parent.removeChild(e): e, with its subtree, leaves the document
removeChild(s, e) == [s EXCEPT !.parentElement[e] = NULL]

\* document.getElementById
GetElementById(s, id) ==
  LET hits == SelectSeq(ElementOrder,
                        LAMBDA x : s.elemId[x] = id /\ IsConnected(s, x))
  IN IF id = "" \/ hits = <<>> THEN NULL ELSE hits[1]

----------------------------------------------------------------------------
(* The Map elementStates: a sequence of [key, state] in insertion order *)

MapKeys(m) == [i \in DOMAIN m |-> m[i].key]

MapHas(m, k) == \E i \in DOMAIN m : m[i].key = k

MapGet(m, k) == m[CHOOSE i \in DOMAIN m : m[i].key = k].state

\* mutant: set() adds an entry even when the key is present
MapSet_Append(m, k, st) == Append(m, [key |-> k, state |-> st])

MapSet(m, k, st) ==
  IF MapHas(m, k)
    THEN [i \in DOMAIN m |-> IF m[i].key = k THEN [key |-> k, state |-> st] ELSE m[i]]
    ELSE Append(m, [key |-> k, state |-> st])

MapDelete(m, k) == SelectSeq(m, LAMBDA x : x.key # k)

----------------------------------------------------------------------------
(* FullscreenManager *)

\* the text of an id, cut at the replacement patterns of String.prototype.replace
\* it holds ($& stands for the matched substring)
IdTokens(blockId) == IF blockId = "x$&" THEN <<"x", "$&">> ELSE <<blockId>>

\* the replacement string `#${blockId} `, expanded for one match
Replacement(blockId, matched) ==
  <<"#">> \o [i \in DOMAIN IdTokens(blockId) |->
               IF IdTokens(blockId)[i] = "$&" THEN matched ELSE IdTokens(blockId)[i]]
          \o <<" ">>

\* mutant: the placeholder is left in the text
processFullscreenStyle_Unscoped(styleText, blockId) == styleText

\* style.replace(/\$\{blockId\}/g, `#${blockId} `), a text being a sequence of tokens;
\* the replaced text is not searched again
RECURSIVE processFullscreenStyle(_, _)
processFullscreenStyle(styleText, blockId) ==
  IF styleText = <<>> THEN <<>>
  ELSE (IF Head(styleText) = PLACEHOLDER
          THEN Replacement(blockId, Head(styleText))
          ELSE <<Head(styleText)>>)
       \o processFullscreenStyle(Tail(styleText), blockId)

\* the string a sequence of tokens spells
RECURSIVE TextOf(_)
TextOf(tokens) ==
  IF tokens = <<>> THEN "" ELSE Head(tokens) \o TextOf(Tail(tokens))

\* document.createElement('style'); textContent; document.head.appendChild
addScopedStyle(s, cssString) ==
  LET used == {b.h : b \in s.head} \cup {s.fullscreenStyleElement}
      \* the new element is none of those in the document or kept by the manager
      h == "style" \o ToString(CHOOSE n \in 1..(Cardinality(used) + 1) :
                                 ("style" \o ToString(n)) \notin used)
  IN [handle |-> h,
      head |-> s.head \cup {[h |-> h, textContent |-> cssString]}]

\* parentNode.removeChild, when the style element has a parent
removeAddedStyle(hd, styleElementToRemove) ==
  {b \in hd : b.h # styleElementToRemove}

\* mutant: every child of the parent is hidden, current and its ancestors included
RECURSIVE HideSiblings_EveryChild(_, _, _, _, _)
HideSiblings_EveryChild(s, current, sibs, i, acc) ==
  IF i > Len(sibs) THEN acc
  ELSE
    LET sibling == sibs[i]
        sNow == [s EXCEPT !.style = acc.style]
    IN HideSiblings_EveryChild(s, current, sibs, i + 1,
         [style |-> [acc.style EXCEPT ![sibling]["display"] = "none"],
          hidden |-> Append(acc.hidden,
                       [element |-> sibling,
                        originalDisplay |-> ComputedDisplay(sNow, sibling)])])

\* one pass of the forEach over current.parentElement.children
RECURSIVE HideSiblings(_, _, _, _, _)
HideSiblings(s, current, sibs, i, acc) ==
  IF i > Len(sibs) THEN acc
  ELSE
    LET sibling == sibs[i]
        sNow == [s EXCEPT !.style = acc.style]
    IN IF sibling # current /\ ~Contains(s, current, sibling)
                            /\ ~Contains(s, sibling, current)
         THEN HideSiblings(s, current, sibs, i + 1,
                [style |-> [acc.style EXCEPT ![sibling]["display"] = "none"],
                 hidden |-> Append(acc.hidden,
                              [element |-> sibling,
                               originalDisplay |-> ComputedDisplay(sNow, sibling)])])
         ELSE HideSiblings(s, current, sibs, i + 1, acc)

\* mutant: only the siblings of the element itself are hidden
HideWalk_OneLevel(s, current, acc) ==
  IF current = NULL \/ current = "body" \/ s.parentElement[current] = NULL THEN acc
  ELSE HideSiblings(s, current, Children(s, s.parentElement[current]), 1, acc)

\* the while loop of saveElementState, from current up to document.body
RECURSIVE HideWalk(_, _, _)
HideWalk(s, current, acc) ==
  IF current = NULL \/ current = "body" THEN acc
  ELSE
    LET p == s.parentElement[current]
        acc2 == IF p # NULL
                  THEN HideSiblings(s, current, Children(s, p), 1, acc)
                  ELSE acc
    IN HideWalk(s, p, acc2)

\* saveElementState: the saved state, and the styles it leaves (siblings hidden)
saveElementState(s, element) ==
  LET walked == HideWalk(s, element, [style |-> s.style, hidden |-> <<>>])
  IN [state |-> [originalStyles |-> [p \in StyleProps |-> s.style[element][p]],
                 hiddenElements |-> walked.hidden],
      style |-> walked.style]

\* the forEach over state.hiddenElements
RECURSIVE RestoreHidden(_, _, _)
RestoreHidden(st, hidden, i) ==
  IF i > Len(hidden) THEN st
  ELSE RestoreHidden(
         IF hidden[i].element \in Elements
           THEN [st EXCEPT ![hidden[i].element]["display"] = hidden[i].originalDisplay]
           ELSE st,
         hidden, i + 1)

\* mutant: the hidden elements are not restored
restoreElementState_SkipHidden(st, element, state) ==
  [st EXCEPT ![element] = state.originalStyles]

\* restoreElementState: the styles it leaves
restoreElementState(st, element, state) ==
  LET cleared == [st EXCEPT ![element] = NoStyle]
      restored == [cleared EXCEPT ![element] =
                     [p \in StyleProps |->
                        IF p \in DOMAIN state.originalStyles
                          THEN state.originalStyles[p] ELSE cleared[element][p]]]
  IN RestoreHidden(restored, state.hiddenElements, 1)

\* toggleFullscreen(element, true, fullscreenStyle)
EnterFullscreen(s, element, fullscreenStyle) ==
  LET saved == saveElementState(s, element)
      s1 == [s EXCEPT !.style = [saved.style EXCEPT ![element] = FULLSCREEN_STYLES],
                      !.elementStates = MapSet(s.elementStates, s.elemId[element],
                                               saved.state)]
  IN IF fullscreenStyle # <<>>
       THEN LET added == addScopedStyle(s1,
                           processFullscreenStyle(fullscreenStyle, s.elemId[element]))
            IN [s1 EXCEPT !.head = added.head,
                          !.fullscreenStyleElement = added.handle]
       ELSE s1

\* mutant: without the early return, the fullscreen styles are cleared before the
\* missing state is read
LeaveFullscreen_NoGuard(s, element) ==
  IF ~MapHas(s.elementStates, s.elemId[element])
    THEN [s EXCEPT !.style = [s.style EXCEPT ![element] = NoStyle]]
  ELSE
    LET state == MapGet(s.elementStates, s.elemId[element])
        s1 == [s EXCEPT !.style = restoreElementState(s.style, element, state),
                        !.elementStates = MapDelete(s.elementStates, s.elemId[element])]
    IN IF s.fullscreenStyleElement # NULL
         THEN [s1 EXCEPT !.head = removeAddedStyle(s.head, s.fullscreenStyleElement),
                         !.fullscreenStyleElement = NULL]
         ELSE s1

\* toggleFullscreen(element, false)
LeaveFullscreen(s, element) ==
  IF ~MapHas(s.elementStates, s.elemId[element]) THEN s
  ELSE
    LET state == MapGet(s.elementStates, s.elemId[element])
        s1 == [s EXCEPT !.style = restoreElementState(s.style, element, state),
                        !.elementStates = MapDelete(s.elementStates, s.elemId[element])]
    IN IF s.fullscreenStyleElement # NULL
         THEN [s1 EXCEPT !.head = removeAddedStyle(s.head, s.fullscreenStyleElement),
                         !.fullscreenStyleElement = NULL]
         ELSE s1

\* the error raised inside the try block of toggleFullscreen: null has no style
\* (the first statement of saveElementState) and no id (the first of the else branch)
RaisedInToggle(s, element, isFullscreen) ==
  IF element = NULL THEN "TypeError" ELSE NULL

\* the state toggleFullscreen leaves; an error is raised before anything is written
toggleFullscreen(s, element, isFullscreen, fullscreenStyle) ==
  IF RaisedInToggle(s, element, isFullscreen) # NULL THEN s
  ELSE IF isFullscreen THEN EnterFullscreen(s, element, fullscreenStyle)
  ELSE LeaveFullscreen(s, element)

\* what toggleFullscreen throws to its caller: catch (error) logs whatever was raised
toggleFullscreenThrows(s, element, isFullscreen) ==
  IF RaisedInToggle(s, element, isFullscreen) # NULL THEN NULL ELSE NULL

\* mutant: true when any element is fullscreen
isElementFullscreen_AnySession(s, element) == s.elementStates # <<>>

\* what isElementFullscreen throws: element.id is read outside any try block
isElementFullscreenThrows(s, element) ==
  IF element = NULL THEN "TypeError" ELSE NULL

\* the value isElementFullscreen returns (none, here FALSE, when it throws)
isElementFullscreen(s, element) ==
  element # NULL /\ MapHas(s.elementStates, s.elemId[element])

\* what exitFullscreen throws: the error of its call of isElementFullscreen
exitFullscreenThrows(s, element) == isElementFullscreenThrows(s, element)

exitFullscreen(s, element) ==
  IF isElementFullscreen(s, element)
    THEN toggleFullscreen(s, element, FALSE, <<>>)
    ELSE s

\* the body of cleanup's forEach, for the entries of the Map in insertion order
RECURSIVE CleanupEach(_, _, _)
CleanupEach(s, keys, i) ==
  IF i > Len(keys) THEN s
  ELSE
    LET elementId == keys[i]
        element == GetElementById(s, elementId)
        s1 == IF ~MapHas(s.elementStates, elementId) THEN s
              ELSE IF element # NULL THEN exitFullscreen(s, element)
              ELSE [s EXCEPT !.elementStates = MapDelete(s.elementStates, elementId)]
    IN CleanupEach(s1, keys, i + 1)

\* clearTimeout(id)
clearTimeout(tm, id) == {t \in tm : t.id # id}

\* mutant: the pending timer is left to fire
cleanup_NoClearTimeout(s) ==
  LET s1 == CleanupEach(s, MapKeys(s.elementStates), 1)
      s2 == [s1 EXCEPT !.elementStates = <<>>]
  IN IF s2.fullscreenStyleElement # NULL
       THEN [s2 EXCEPT !.head = removeAddedStyle(s2.head, s2.fullscreenStyleElement),
                       !.fullscreenStyleElement = NULL]
       ELSE s2

cleanup(s) ==
  LET s0 == IF s.cleanupTimer # NULL
              THEN [s EXCEPT !.timers = clearTimeout(s.timers, s.cleanupTimer),
                             !.cleanupTimer = NULL]
              ELSE s
      s1 == CleanupEach(s0, MapKeys(s0.elementStates), 1)
      s2 == [s1 EXCEPT !.elementStates = <<>>]
  IN IF s2.fullscreenStyleElement # NULL
       THEN [s2 EXCEPT !.head = removeAddedStyle(s2.head, s2.fullscreenStyleElement),
                       !.fullscreenStyleElement = NULL]
       ELSE s2

\* mutant: the pending timer is not cleared
schedulePeriodicCleanup_NoClear(s, intervalMs) ==
  LET used == {t.id : t \in s.timers} \cup {s.cleanupTimer}
      id == "timer" \o ToString(CHOOSE n \in 1..(Cardinality(used) + 1) :
                                  ("timer" \o ToString(n)) \notin used)
  IN [s EXCEPT !.timers = s.timers \cup {[id |-> id, intervalMs |-> intervalMs]},
               !.cleanupTimer = id]

\* schedulePeriodicCleanup up to and including the setTimeout
schedulePeriodicCleanup(s, intervalMs) ==
  LET pending == IF s.cleanupTimer # NULL
                   THEN clearTimeout(s.timers, s.cleanupTimer)
                   ELSE s.timers
      used == {t.id : t \in pending} \cup {s.cleanupTimer}
      \* setTimeout returns an id no pending timer and no kept reference has
      id == "timer" \o ToString(CHOOSE n \in 1..(Cardinality(used) + 1) :
                                  ("timer" \o ToString(n)) \notin used)
  IN [s EXCEPT !.timers = pending \cup {[id |-> id, intervalMs |-> intervalMs]},
               !.cleanupTimer = id]

\* the ids the timer callback collects in invalidIds
InvalidIds(s) ==
  SelectSeq(MapKeys(s.elementStates), LAMBDA k : GetElementById(s, k) = NULL)

RECURSIVE DeleteAll(_, _, _)
DeleteAll(m, ids, i) ==
  IF i > Len(ids) THEN m ELSE DeleteAll(MapDelete(m, ids[i]), ids, i + 1)

\* the callback schedulePeriodicCleanup hands to setTimeout
cleanupTimerCallback(s, intervalMs) ==
  LET s1 == [s EXCEPT !.elementStates = DeleteAll(s.elementStates, InvalidIds(s), 1)]
  IN schedulePeriodicCleanup(s1, intervalMs)

----------------------------------------------------------------------------
(* The state machine *)

\* the error a call throws to its caller, or NULL; cleanup, schedulePeriodicCleanup
\* and the timer callback have no statement that throws outside a try block
Thrown(op, el) ==
  CASE op = "enter" -> toggleFullscreenThrows(Cur, el, TRUE)
    [] op = "exit" -> toggleFullscreenThrows(Cur, el, FALSE)
    [] op = "isElementFullscreen" -> isElementFullscreenThrows(Cur, el)
    [] op = "exitFullscreen" -> exitFullscreenThrows(Cur, el)
    [] OTHER -> NULL

\* what is remembered of a call: its name, its element, whether the element was
\* fullscreen when the call was made, the value returned, the error thrown and
\* whether a timer was pending when the call was made
Call(op, el, ret) ==
  [op |-> op, el |-> el, ret |-> ret,
   had |-> IF el \in Elements THEN isElementFullscreen(Cur, el) ELSE FALSE,
   err |-> Thrown(op, el),
   pending |-> timers # {}]

\* the observation of the sessions follows the keys of elementStates; entered
\* is the record of a session an enter has just created, or <<>>
Observe(entered) ==
  sessionInfo' =
    [k \in {elementStates'[i].key : i \in DOMAIN elementStates'} |->
       LET info == IF k \in DOMAIN entered THEN entered[k] ELSE sessionInfo[k]
       IN IF info.injected \in {b.h : b \in head'} \cup {NULL}
            THEN info
            ELSE [info EXCEPT !.injected = REMOVED]]

Becomes(s) ==
  /\ style' = s.style
  /\ parentElement' = s.parentElement
  /\ elemId' = s.elemId
  /\ elementStates' = s.elementStates
  /\ fullscreenStyleElement' = s.fullscreenStyleElement
  /\ head' = s.head
  /\ cleanupTimer' = s.cleanupTimer
  /\ timers' = s.timers

InitialStyles ==
  {[e \in Elements |->
      CASE e = "A" -> DESIGN_MODE_STYLE
        [] e = "C" -> [NoStyle EXCEPT !["display"] = "none"]
        [] e = "N" -> CONTAINER_BASE_STYLE
        [] OTHER -> NoStyle]}

InitialIds ==
  {[e \in Elements |->
      CASE e = "A" -> ids[1]
        [] e = "N" -> ids[2]
        [] OTHER -> ""] :
     ids \in {<<"a", "n">>, <<"", "">>}}

Init ==
  /\ style \in InitialStyles
  /\ parentElement = InitialParent
  /\ elemId \in InitialIds
  /\ elementStates = <<>>
  /\ fullscreenStyleElement = NULL
  /\ head = {}
  /\ cleanupTimer = NULL
  /\ timers = {}
  /\ lastCall = Call("none", NULL, FALSE)
  /\ everEntered = {}
  /\ sessionInfo = <<>>
  /\ componentIsFullscreen = [e \in Containers |-> FALSE]

\* the observation of the session toggleFullscreen(e, true, text) has just made
Entered(e, text) ==
  IF e = NULL THEN <<>>
  ELSE [k \in {elemId'[e]} |->
          [el |-> e,
           injected |-> IF text # <<>> THEN fullscreenStyleElement'
                        ELSE IF k \in DOMAIN sessionInfo
                               THEN sessionInfo[k].injected
                               ELSE NULL,
           hidden |-> IF k \in DOMAIN sessionInfo
                        THEN sessionInfo[k].hidden
                        ELSE MapGet(elementStates', k).hiddenElements]]

Enter(e, text) ==
  /\ text # <<>> => Cardinality(head) < MaxStyleBlocks
  /\ Becomes(toggleFullscreen(Cur, e, TRUE, text))
  /\ lastCall' = Call("enter", e, FALSE)
  /\ everEntered' = everEntered \cup ({e} \cap Elements)
  /\ UNCHANGED componentIsFullscreen
  /\ Observe(Entered(e, text))

Exit(e) ==
  /\ Becomes(toggleFullscreen(Cur, e, FALSE, <<>>))
  /\ lastCall' = Call("exit", e, FALSE)
  /\ UNCHANGED <<everEntered, componentIsFullscreen>>
  /\ Observe(<<>>)

IsElementFullscreen(e) ==
  /\ lastCall' = Call("isElementFullscreen", e, isElementFullscreen(Cur, e))
  /\ UNCHANGED <<style, parentElement, elemId, elementStates,
                 fullscreenStyleElement, head, cleanupTimer, timers,
                 everEntered, sessionInfo,
                 componentIsFullscreen>>

ExitFullscreen(e) ==
  /\ Becomes(exitFullscreen(Cur, e))
  /\ lastCall' = Call("exitFullscreen", e, FALSE)
  /\ UNCHANGED <<everEntered, componentIsFullscreen>>
  /\ Observe(<<>>)

Cleanup ==
  /\ Becomes(cleanup(Cur))
  /\ lastCall' = Call("cleanup", NULL, FALSE)
  /\ UNCHANGED <<everEntered, componentIsFullscreen>>
  /\ Observe(<<>>)

SchedulePeriodicCleanup(intervalMs) ==
  /\ Becomes(schedulePeriodicCleanup(Cur, intervalMs))
  /\ lastCall' = Call("schedulePeriodicCleanup", NULL, FALSE)
  /\ UNCHANGED <<everEntered, componentIsFullscreen>>
  /\ Observe(<<>>)

\* a pending timer fires and its callback runs
SweepTick(t) ==
  /\ t \in timers
  /\ Becomes(cleanupTimerCallback([Cur EXCEPT !.timers = timers \ {t}], t.intervalMs))
  /\ lastCall' = Call("sweepTick", NULL, FALSE)
  /\ UNCHANGED <<everEntered, componentIsFullscreen>>
  /\ Observe(<<>>)

\* the page removes an element (and its subtree) from the document
Detach(e) ==
  /\ parentElement[e] # NULL
  /\ parentElement' = removeChild(Cur, e).parentElement
  /\ lastCall' = Call("detach", e, FALSE)
  /\ UNCHANGED <<style, elemId, elementStates, fullscreenStyleElement, head,
                 cleanupTimer, timers, everEntered, sessionInfo,
                 componentIsFullscreen>>

Next ==
  \/ \E e \in Containers, text \in StyleInputs : Enter(e, text)
  \/ \E e \in Containers : Exit(e)
  \/ \E e \in Containers : IsElementFullscreen(e)
  \/ \E e \in Containers : ExitFullscreen(e)
  \/ Cleanup
  \/ \E i \in Intervals : SchedulePeriodicCleanup(i)
  \/ \E t \in timers : SweepTick(t)
  \/ \E e \in Detachable : Detach(e)

Spec == Init /\ [][Next]_vars

\* the pages on which every container was given an id of its own
InitWithIds == Init /\ \A e \in Containers : elemId[e] # ""

SpecWithIds == InitWithIds /\ [][Next]_vars

----------------------------------------------------------------------------
(* FullscreenBlock: the components that call the manager *)

\* `fullscreen-block-container-${nanoid()}`: an id no element has
NewBlockId(s) ==
  LET used == {s.elemId[x] : x \in Elements}
  IN "fullscreen-block-container-" \o
       ToString(CHOOSE n \in 1..(Cardinality(Containers) + 1) :
                  ("fullscreen-block-container-" \o ToString(n)) \notin used)

\* handleFullscreenToggle up to and including the call of the manager, for the
\* component of root element e whose isFullscreen state is flag
handleFullscreenToggle(s, e, flag, customStyle) ==
  LET s0 == IF s.elemId[e] = "" THEN [s EXCEPT !.elemId[e] = NewBlockId(s)] ELSE s
  IN toggleFullscreen(s0, e, ~flag, customStyle)

\* a click on the fullscreen button of a mounted component
Click(e, customStyle) ==
  /\ IsConnected(Cur, e)
  /\ (~componentIsFullscreen[e] /\ customStyle # <<>>) =>
       Cardinality(head) < MaxStyleBlocks
  /\ Becomes(handleFullscreenToggle(Cur, e, componentIsFullscreen[e], customStyle))
  /\ componentIsFullscreen' =
       [componentIsFullscreen EXCEPT ![e] = ~componentIsFullscreen[e]]
  /\ lastCall' = Call("click", e, FALSE)
  /\ everEntered' = IF componentIsFullscreen[e] THEN everEntered
                    ELSE everEntered \cup {e}
  /\ Observe(IF componentIsFullscreen[e] THEN <<>> ELSE Entered(e, customStyle))

\* the component is unmounted: the cleanup of its effect calls exitFullscreen when
\* rootElementRef.current is still set (React detaches the ref before or after the
\* cleanup runs, by its version), and the root element leaves the document
Unmount(e) ==
  /\ IsConnected(Cur, e)
  /\ \E refIsSet \in BOOLEAN :
       Becomes(removeChild(IF refIsSet THEN exitFullscreen(Cur, e) ELSE Cur, e))
  /\ componentIsFullscreen' = [componentIsFullscreen EXCEPT ![e] = FALSE]
  /\ lastCall' = Call("unmount", e, FALSE)
  /\ UNCHANGED everEntered
  /\ Observe(<<>>)

\* the manager with FullscreenBlock components as its only callers
NextUI ==
  \/ \E e \in Containers, customStyle \in StyleInputs : Click(e, customStyle)
  \/ \E e \in Detachable : Unmount(e)
  \/ Cleanup
  \/ \E i \in Intervals : SchedulePeriodicCleanup(i)
  \/ \E t \in timers : SweepTick(t)

SpecUI == Init /\ [][NextUI]_vars

----------------------------------------------------------------------------
(* processFullscreenStyle on its own *)

\* processFullscreenStyle tried on every text and id: one element, A, entered
\* with any custom style and left again
InitStyles ==
  /\ style \in InitialStyles
  /\ parentElement = InitialParent
  /\ elemId \in {[e \in Elements |-> IF e = "A" THEN id ELSE ""] : id \in BlockIds}
  /\ elementStates = <<>>
  /\ fullscreenStyleElement = NULL
  /\ head = {}
  /\ cleanupTimer = NULL
  /\ timers = {}
  /\ lastCall = Call("none", NULL, FALSE)
  /\ everEntered = {}
  /\ sessionInfo = <<>>
  /\ componentIsFullscreen = [e \in Containers |-> FALSE]

NextStyles ==
  \/ \E text \in StyleTexts : Enter("A", text)
  \/ Exit("A")

SpecStyles == InitStyles /\ [][NextStyles]_vars

\* the manager called with any argument, null included
NextAnyArgument ==
  \/ Next
  \/ \E text \in StyleInputs : Enter(NULL, text)
  \/ Exit(NULL)
  \/ IsElementFullscreen(NULL)
  \/ ExitFullscreen(NULL)

SpecAnyArgument == InitWithIds /\ [][NextAnyArgument]_vars

----------------------------------------------------------------------------
(* toggleFullscreen when the injection of the custom style fails *)

\* mutant: a failed injection undoes the enter
EnterFullscreenInjectionFails_RolledBack(s, element) == s

\* toggleFullscreen(element, true, fullscreenStyle) when the DOM throws inside
\* addScopedStyle: the state is saved and stored and the fullscreen styles are
\* applied, no <style> element is appended, fullscreenStyleElement is not assigned,
\* and catch (error) logs the error
EnterFullscreenInjectionFails(s, element) ==
  LET saved == saveElementState(s, element)
  IN [s EXCEPT !.style = [saved.style EXCEPT ![element] = FULLSCREEN_STYLES],
               !.elementStates = MapSet(s.elementStates, s.elemId[element],
                                        saved.state)]

EnterInjectionFails(e, text) ==
  /\ text # <<>>
  /\ Becomes(EnterFullscreenInjectionFails(Cur, e))
  /\ lastCall' = Call("enterInjectionFails", e, FALSE)
  /\ everEntered' = everEntered \cup {e}
  /\ UNCHANGED componentIsFullscreen
  /\ Observe(Entered(e, <<>>))

\* the manager on a page where appending a <style> element can fail
NextInjectionFails ==
  \/ Next
  \/ \E e \in Containers, text \in StyleInputs : EnterInjectionFails(e, text)

SpecInjectionFails == InitWithIds /\ [][NextInjectionFails]_vars

----------------------------------------------------------------------------
(* The event loop *)

\* a timer set with setTimeout and not cleared fires: the event loop runs its
\* callback once its delay is over; the calls of the page come when they come
SpecEventLoop == Init /\ [][Next]_vars /\ WF_vars(\E t \in timers : SweepTick(t))

----------------------------------------------------------------------------
(* Properties *)

\* the elements that share a parent with e or with an ancestor of e (below
\* document.body) and neither contain e nor are contained in e
Unrelated(s, e) ==
  {x \in Elements :
     /\ ~Contains(s, x, e)
     /\ ~Contains(s, e, x)
     /\ \E a \in Elements :
          /\ Contains(s, a, e)
          /\ a # "body"
          /\ s.parentElement[a] # NULL
          /\ s.parentElement[x] = s.parentElement[a]}

HasSession(s, k) == \E i \in DOMAIN s.elementStates : s.elementStates[i].key = k

HiddenOf(s, k) == MapGet(s.elementStates, k).hiddenElements

\* C1: for a container with no session, enter followed immediately by exit leaves
\* its 14 style properties as they were, leaves every element the enter hid with
\* the display it had, and leaves no session for the container.
C1_EnterExitRestores ==
  \A e \in Containers, text \in StyleInputs :
    ~HasSession(Cur, elemId[e]) =>
      LET s1 == toggleFullscreen(Cur, e, TRUE, text)
          s2 == toggleFullscreen(s1, e, FALSE, <<>>)
      IN /\ \A i \in DOMAIN STYLES_TO_SAVE :
              s2.style[e][STYLES_TO_SAVE[i]] = style[e][STYLES_TO_SAVE[i]]
         /\ \A x \in Unrelated(Cur, e) :
              /\ s1.style[x]["display"] = "none"
              /\ ComputedDisplay(s2, x) = ComputedDisplay(Cur, x)
         /\ ~HasSession(s2, elemId[e])

\* C1 witness: A was entered with no session and then left; B, which had no inline
\* display and was hidden, is displayed as a block again, and A has its own styles.
C1_Witness ==
  /\ lastCall.op = "exit" /\ lastCall.el = "A" /\ lastCall.had
  /\ elementStates = <<>>
  /\ style["A"] = DESIGN_MODE_STYLE
  /\ style["B"]["display"] = "block"
  /\ ComputedDisplay(Cur, "hdr") = "flex"
  /\ ComputedDisplay(Cur, "C") = "none"

\* C2: after enter(e) the container carries every fullscreen style value, and every
\* element that is a sibling of e or of an ancestor of e, neither containing e nor
\* contained in it, has display "none" and is recorded exactly once in the session
\* of e, with the display it had; enter(A) hides the siblings B and C of A.
C2_EnterHidesUnrelated ==
  \A e \in Containers, text \in StyleInputs :
    LET s1 == toggleFullscreen(Cur, e, TRUE, text)
        hidden == HiddenOf(s1, elemId[e])
    IN /\ \A p \in StyleProps : s1.style[e][p] = FULLSCREEN_STYLES[p]
       /\ \A x \in Unrelated(Cur, e) :
            /\ s1.style[x]["display"] = "none"
            /\ Cardinality({i \in DOMAIN hidden : hidden[i].element = x}) = 1
            /\ \A i \in DOMAIN hidden :
                 hidden[i].element = x =>
                   hidden[i].originalDisplay = ComputedDisplay(Cur, x)
       /\ e = "A" => {"B", "C"} \subseteq Unrelated(Cur, e)

\* C2 witness: A has been entered and B, C and hdr are hidden and recorded.
C2_Witness ==
  /\ lastCall.op = "enter" /\ lastCall.el = "A" /\ ~lastCall.had
  /\ style["A"] = FULLSCREEN_STYLES
  /\ \A x \in {"B", "C", "hdr"} : style[x]["display"] = "none"
  /\ HasSession(Cur, elemId["A"])
  /\ Len(HiddenOf(Cur, elemId["A"])) = 3

\* C3: a container enter was never called on is not fullscreen, and exit on it
\* changes no store entry, no style, no display and no injected style element.
C3_NeverEnteredIsInert ==
  \A e \in Containers \ everEntered :
    /\ ~isElementFullscreen(Cur, e)
    /\ toggleFullscreen(Cur, e, FALSE, <<>>) = Cur

\* what the last call leaves to be seen of isElementFullscreen
AnswerMatchesStore ==
  lastCall.el \in Elements =>
    /\ lastCall.op = "isElementFullscreen" =>
         (lastCall.ret <=> HasSession(Cur, elemId[lastCall.el]))
    /\ lastCall.op = "enter" => isElementFullscreen(Cur, lastCall.el)
    /\ lastCall.op \in {"exit", "exitFullscreen"} =>
         ~isElementFullscreen(Cur, lastCall.el)

\* C4: isElementFullscreen(e) returns true exactly when elementStates holds an entry
\* for the id of e; it is true after enter(e) and false after exit(e); and the call
\* changes nothing of the manager or the document.
C4_IsFullscreenIsLookup ==
  /\ []AnswerMatchesStore
  /\ [][lastCall'.op = "isElementFullscreen" =>
          UNCHANGED <<style, parentElement, elemId, elementStates,
                      fullscreenStyleElement, head, cleanupTimer, timers>>]_vars

\* C4 witness: the call has answered true for an element with a session.
C4_Witness ==
  /\ lastCall.op = "isElementFullscreen" /\ lastCall.ret
  /\ HasSession(Cur, elemId[lastCall.el])
  /\ lastCall.el \in everEntered

\* C5: from any reachable state, exit(e) twice ends in the same state (store,
\* styles, displays, style elements) as exit(e) once.
C5_ExitIdempotent ==
  \A e \in Containers :
    LET s1 == toggleFullscreen(Cur, e, FALSE, <<>>)
    IN toggleFullscreen(s1, e, FALSE, <<>>) = s1

\* C5 witness: exit was called on an entered element whose session had already
\* ended, and A shows the styles it had before it was entered.
C5_Witness ==
  /\ lastCall.op = "exit" /\ ~lastCall.had /\ lastCall.el = "A"
  /\ "A" \in everEntered
  /\ style["A"] = DESIGN_MODE_STYLE
  /\ style["B"]["display"] = "block"

\* C6: enter(e); enter(e) leaves exactly one session for e in the store, records no
\* hidden element twice in it, and leaves the override values applied once.
C6_ReentryKeepsOneSession ==
  \A e \in Containers, t1 \in StyleInputs, t2 \in StyleInputs :
    LET s1 == toggleFullscreen(Cur, e, TRUE, t1)
        s2 == toggleFullscreen(s1, e, TRUE, t2)
        hidden == HiddenOf(s2, elemId[e])
    IN /\ Cardinality({i \in DOMAIN s2.elementStates :
                          s2.elementStates[i].key = elemId[e]}) = 1
       /\ Len(s2.elementStates) = Len(s1.elementStates)
       /\ \A i, j \in DOMAIN hidden :
            hidden[i].element = hidden[j].element => i = j
       /\ s2.style[e] = s1.style[e]
       /\ s2.style[e] = FULLSCREEN_STYLES

\* C6 witness: enter was called on A while A had a session.
C6_Witness ==
  /\ lastCall.op = "enter" /\ lastCall.had /\ lastCall.el = "A"
  /\ Cardinality({i \in DOMAIN elementStates : elementStates[i].key = elemId["A"]}) = 1
  /\ Len(HiddenOf(Cur, elemId["A"])) = 3

\* C7: when the sessions of a key are over (by exit, also after a repeated enter
\* has replaced the first one, by the sweep's eviction, by cleanup), every element
\* hidden for the key has the display recorded when it was first hidden.
C7_SiblingsRestoredWhenSessionEnds ==
  [][\A k \in DOMAIN sessionInfo :
       ~HasSession(Cur', k) =>
         \A i \in DOMAIN sessionInfo[k].hidden :
           ComputedDisplay(Cur', sessionInfo[k].hidden[i].element)
             = sessionInfo[k].hidden[i].originalDisplay]_vars

Handles(hd) == {b.h : b \in hd}

\* C8: the style element injected for a session stays in the document and in the
\* manager's hands while the session is in the store, whatever is done to other
\* sessions, and is removed when the session leaves the store.
C8_StyleBlockFollowsSession ==
  [][\A k \in DOMAIN sessionInfo :
       sessionInfo[k].injected \notin {NULL, REMOVED} =>
         IF ~HasSession(Cur', k)
           THEN sessionInfo[k].injected \notin Handles(head')
           ELSE /\ sessionInfo[k].injected \in Handles(head')
                /\ fullscreenStyleElement' = sessionInfo[k].injected]_vars

\* C9: a sweep tick evicts every session whose container is no longer in the
\* document, and no style element injected for such a session remains.
C9_SweepEvictsDestroyed ==
  [][lastCall'.op = "sweepTick" =>
       \A k \in DOMAIN sessionInfo :
         ~IsConnected(Cur, sessionInfo[k].el) =>
           /\ ~HasSession(Cur', k)
           /\ sessionInfo[k].injected \in {NULL, REMOVED}
                \/ sessionInfo[k].injected \notin Handles(head')]_vars

\* C10: at most one sweep timer is pending, it is the one the manager holds, and a
\* tick arms the next timer only with its own body done: the timer that fired is
\* gone, no entry of the store is left unresolved, one new timer is pending.
C10_SingleFlightSweep ==
  /\ [](Cardinality(timers) <= 1 /\ \A t \in timers : t.id = cleanupTimer)
  /\ [][lastCall'.op = "sweepTick" =>
          /\ Cardinality(timers') = 1
          /\ timers' \cap timers = {}
          /\ InvalidIds(Cur') = <<>>]_vars

\* C10 witness: a tick has run and evicted a session, and one timer is pending.
C10_Witness ==
  /\ lastCall.op = "sweepTick"
  /\ Cardinality(timers) = 1
  /\ everEntered # {}
  /\ elementStates = <<>>

\* C11: after cleanup() returns the store is empty, isElementFullscreen is false for
\* every container, and no <style> element the manager injected is in the document.
C11_CleanupLeavesNothing ==
  [][lastCall'.op = "cleanup" =>
       /\ elementStates' = <<>>
       /\ \A e \in Containers : ~isElementFullscreen(Cur', e)
       /\ head' = {}]_vars

\* C12: toggleFullscreen(e, true) with e null or outside the document throws
\* InvalidContainer to its caller and changes nothing: no entry in the store, no
\* style, no hidden sibling, no <style> element.
C12_InvalidContainerRejected ==
  [][(/\ lastCall'.op = "enter"
      /\ (lastCall'.el = NULL \/ ~IsConnected(Cur, lastCall'.el))) =>
        /\ lastCall'.err = "InvalidContainer"
        /\ Cur' = Cur]_vars

\* C13: the only error a call throws to its caller is InvalidContainer, from enter;
\* exit, isElementFullscreen, exitFullscreen, cleanup and the timer callback throw
\* nothing, whatever element they are given.
C13_OnlyInvalidContainerPropagates ==
  /\ lastCall.op = "enter" => lastCall.err \in {NULL, "InvalidContainer"}
  /\ lastCall.op \in {"exit", "isElementFullscreen", "exitFullscreen", "cleanup",
                      "sweepTick"} => lastCall.err = NULL

\* C14: when one element recorded in the session of e has left the document,
\* toggleFullscreen(e, false) skips that element alone: every other recorded
\* element has its recorded display again, e has its saved styles, the <style>
\* element injected for the session is removed and the session is deleted.
C14_SiblingRestoreIndependent ==
  \A e \in Containers :
    HasSession(Cur, elemId[e]) =>
      LET state == MapGet(elementStates, elemId[e])
          hidden == state.hiddenElements
          injected == sessionInfo[elemId[e]].injected
      IN \A j \in DOMAIN hidden :
           LET gone == hidden[j].element
               s0 == removeChild(Cur, gone)
               s1 == toggleFullscreen(s0, e, FALSE, <<>>)
           IN /\ \A i \in DOMAIN hidden :
                   hidden[i].element # gone =>
                     s1.style[hidden[i].element]["display"] = hidden[i].originalDisplay
              /\ s1.style[gone] = s0.style[gone]
              /\ \A p \in StyleProps : s1.style[e][p] = state.originalStyles[p]
              /\ injected \in {NULL, REMOVED} \/ injected \notin Handles(s1.head)
              /\ ~HasSession(s1, elemId[e])

\* C15: an enter or exit of another element, or a timer callback that leaves the
\* element in the store, changes nothing of the session made by enter(c): its entry
\* in the store, the styles of c and its injected <style> element stay as they
\* are, and an exit of c afterwards still writes back the saved styles of c and
\* the display each hidden element had before enter(c).
C15_SessionsIndependent ==
  [][\A k \in DOMAIN sessionInfo :
       LET c == sessionInfo[k].el
           injected == sessionInfo[k].injected
       IN (/\ HasSession(Cur, k)
           /\ HiddenOf(Cur, k) = sessionInfo[k].hidden
           /\ \/ lastCall'.op \in {"enter", "exit"} /\ lastCall'.el # c
              \/ lastCall'.op = "sweepTick" /\ GetElementById(Cur, k) = c) =>
            /\ HasSession(Cur', k)
            /\ MapGet(elementStates', k) = MapGet(elementStates, k)
            /\ style'[c] = style[c]
            /\ injected \notin {NULL, REMOVED} =>
                 /\ injected \in Handles(head')
                 /\ fullscreenStyleElement' = injected
            /\ LET s1 == toggleFullscreen(Cur', c, FALSE, <<>>)
                   hidden == sessionInfo[k].hidden
               IN /\ \A p \in StyleProps :
                       s1.style[c][p] = MapGet(elementStates, k).originalStyles[p]
                  /\ \A i \in DOMAIN hidden :
                       s1.style[hidden[i].element]["display"] = hidden[i].originalDisplay
                  /\ injected \in {NULL, REMOVED} \/ injected \notin Handles(s1.head)]_vars

\* the <style> elements of a document head that have the handle h
BlocksOf(hd, h) == {b \in hd : b.h = h}

\* the text "<placeholder> { color: red; }"
ColorRedText == <<PLACEHOLDER, " { color: red; }">>

Count(text, token) == Cardinality({i \in DOMAIN text : text[i] = token})

\* the number of times the selector "#<blockId>" occurs in a text
SelectorCount(text, blockId) ==
  LET id == IdTokens(blockId)
  IN Cardinality({i \in DOMAIN text :
                    /\ text[i] = "#"
                    /\ i + Len(id) <= Len(text)
                    /\ SubSeq(text, i + 1, i + Len(id)) = id})

\* C17: for every custom style with the placeholder N times and every id, the text
\* of the injected <style> element holds the selector "#<id>" N times and the
\* placeholder not at all.
C17_PlaceholderSubstitution ==
  \A text \in StyleTexts \ {<<>>} :
    LET s1 == toggleFullscreen(Cur, "A", TRUE, text)
    IN \A b \in BlocksOf(s1.head, s1.fullscreenStyleElement) :
         /\ Count(b.textContent, PLACEHOLDER) = 0
         /\ SelectorCount(b.textContent, elemId["A"]) = Count(text, PLACEHOLDER)

\* C18: toggleFullscreen(e, true) on an element with no id gives it one, leaves an
\* id it has, keys the session by the id, and no other container has the same id.
C18_EnterAssignsId ==
  [][(lastCall'.op = "enter" /\ lastCall'.el \in Elements) =>
       LET e == lastCall'.el
       IN /\ elemId'[e] # ""
          /\ elemId[e] # "" => elemId'[e] = elemId[e]
          /\ HasSession(Cur', elemId'[e])
          /\ \A d \in Containers \ {e} : elemId'[d] # elemId'[e]]_vars

\* the same of a session a FullscreenBlock starts: the click handler gives the root
\* element an id when it has none, and the session is keyed by it
ClickAssignsId ==
  [][(lastCall'.op = "click" /\ componentIsFullscreen'[lastCall'.el]) =>
       LET e == lastCall'.el
       IN /\ elemId'[e] # ""
          /\ elemId[e] # "" => elemId'[e] = elemId[e]
          /\ HasSession(Cur', elemId'[e])
          /\ \A d \in Containers \ {e} : elemId'[d] # elemId'[e]]_vars

\* C19: when a FullscreenBlock is unmounted while its root element is fullscreen,
\* the store has no entry for the element afterwards and every element hidden for
\* it has the display it had.
C19_UnmountExits ==
  [][(lastCall'.op = "unmount" /\ lastCall'.had) =>
       LET k == elemId[lastCall'.el]
           hidden == sessionInfo[k].hidden
       IN /\ ~HasSession(Cur', k)
          /\ \A i \in DOMAIN hidden :
               ComputedDisplay(Cur', hidden[i].element) = hidden[i].originalDisplay]_vars

\* C20: the isFullscreen state of every mounted FullscreenBlock equals what
\* isElementFullscreen answers for its root element, after every click and
\* whatever cleanup() calls and timer callbacks come between the clicks.
C20_UiInSync ==
  \A e \in Containers :
    IsConnected(Cur, e) => (componentIsFullscreen[e] <=> isElementFullscreen(Cur, e))

\* C21: for a container with no session, enter; enter; exit, with nothing in
\* between, leaves its 14 style properties, and the display of every element either
\* enter recorded as hidden, as they were before the first enter.
C21_RepeatedEnterKeepsOriginal ==
  \A e \in Containers, t1 \in StyleInputs, t2 \in StyleInputs :
    ~HasSession(Cur, elemId[e]) =>
      LET s1 == toggleFullscreen(Cur, e, TRUE, t1)
          s2 == toggleFullscreen(s1, e, TRUE, t2)
          s3 == toggleFullscreen(s2, e, FALSE, <<>>)
          hidden == HiddenOf(s1, elemId[e]) \o HiddenOf(s2, elemId[e])
      IN /\ \A p \in StyleProps : s3.style[e][p] = style[e][p]
         /\ \A i \in DOMAIN hidden :
              ComputedDisplay(s3, hidden[i].element)
                = ComputedDisplay(Cur, hidden[i].element)

\* C22: when the injection of the custom style fails in toggleFullscreen(e, true,
\* text), the fullscreen styles stay applied to e and the session stays in the
\* store, no <style> element is added, and a toggleFullscreen(e, false) after it
\* writes back the styles e had and the display every hidden element had, and
\* deletes the session.
C22_InjectionFailureKeepsSession ==
  [][lastCall'.op = "enterInjectionFails" =>
       LET e == lastCall'.el
           k == elemId[e]
           s2 == toggleFullscreen(Cur', e, FALSE, <<>>)
       IN /\ style'[e] = FULLSCREEN_STYLES
          /\ HasSession(Cur', k)
          /\ head' = head
          /\ fullscreenStyleElement' = fullscreenStyleElement
          /\ \A i \in DOMAIN HiddenOf(Cur', k) :
               style'[HiddenOf(Cur', k)[i].element]["display"] = "none"
          /\ ~HasSession(s2, k)
          /\ \A p \in StyleProps :
               s2.style[e][p] = MapGet(elementStates', k).originalStyles[p]
          /\ ~lastCall'.had =>
               /\ \A p \in StyleProps : s2.style[e][p] = style[e][p]
               /\ \A i \in DOMAIN HiddenOf(Cur', k) :
                    ComputedDisplay(s2, HiddenOf(Cur', k)[i].element)
                      = ComputedDisplay(Cur, HiddenOf(Cur', k)[i].element)]_vars

\* C22 witness: the injection failed while A, which had no session, was entered: A
\* has the fullscreen styles and a session, B is hidden, no <style> element was added.
C22_Witness ==
  /\ lastCall.op = "enterInjectionFails" /\ lastCall.el = "A" /\ ~lastCall.had
  /\ style["A"] = FULLSCREEN_STYLES
  /\ HasSession(Cur, elemId["A"])
  /\ style["B"]["display"] = "none"
  /\ head = {}

\* C23: a timer callback leaves every session whose container is in the document:
\* the session is in the store with the state it had, and isElementFullscreen of
\* the container is still true.
C23_SweepKeepsLiveSessions ==
  [][lastCall'.op = "sweepTick" =>
       \A k \in DOMAIN sessionInfo :
         LET c == sessionInfo[k].el
         IN (HasSession(Cur, k) /\ IsConnected(Cur, c)) =>
              /\ HasSession(Cur', k)
              /\ MapGet(elementStates', k) = MapGet(elementStates, k)
              /\ isElementFullscreen(Cur', c)]_vars

\* C24: cleanup() cancels the timer: after it no timer is pending and the manager
\* holds none; and while no timer is pending no timer callback runs and no call
\* other than schedulePeriodicCleanup makes one pending.
C24_CleanupCancelsTimer ==
  /\ [][lastCall'.op = "cleanup" => (timers' = {} /\ cleanupTimer' = NULL)]_vars
  /\ [][timers = {} =>
          /\ lastCall'.op # "sweepTick"
          /\ lastCall'.op # "schedulePeriodicCleanup" => timers' = {}]_vars

\* C24 witness: cleanup() was called while a timer was pending, and none is now.
C24_Witness ==
  /\ lastCall.op = "cleanup" /\ lastCall.pending
  /\ timers = {}
  /\ cleanupTimer = NULL

\* C25: once elementStates holds a session a timer callback eventually runs, and
\* every timer callback leaves exactly one timer pending, a new one, with the
\* interval of the timer that fired.
C25_SweepRunsPeriodically ==
  /\ (elementStates # <<>>) ~> (lastCall.op = "sweepTick")
  /\ [][lastCall'.op = "sweepTick" =>
          /\ Cardinality(timers') = 1
          /\ timers' \cap timers = {}
          /\ \A t \in timers, u \in timers' : u.intervalMs = t.intervalMs]_vars

\* the elements recorded as hidden in the session of key k
RecordedIn(s, k) == {HiddenOf(s, k)[i].element : i \in DOMAIN HiddenOf(s, k)}

\* C26: toggleFullscreen(e, true, text) changes only the 14 style properties of e,
\* the display of the elements it records, the entry of the store with the id of e
\* and, when text is not empty, one <style> element it adds (none when it is); the
\* elements it records are neither ancestors nor descendants of e, and the tree,
\* the ids, the other entries of the store and the timers stay as they are.
C26_EnterSideEffectsConfined ==
  [](\A e \in Containers, text \in StyleInputs :
       LET s1 == toggleFullscreen(Cur, e, TRUE, text)
           recorded == RecordedIn(s1, elemId[e])
       IN /\ \A x \in Elements \ {e}, p \in StyleProps :
               s1.style[x][p] # style[x][p] => (p = "display" /\ x \in recorded)
          /\ \A x \in recorded : ~Contains(Cur, x, e) /\ ~Contains(Cur, e, x)
          /\ \A x \in Elements \ {e} :
               (Contains(Cur, x, e) \/ Contains(Cur, e, x)) =>
                 ComputedDisplay(s1, x) = ComputedDisplay(Cur, x)
          /\ MapDelete(s1.elementStates, elemId[e])
               = MapDelete(elementStates, elemId[e])
          /\ s1.parentElement = parentElement
          /\ s1.elemId = elemId
          /\ s1.cleanupTimer = cleanupTimer
          /\ s1.timers = timers
          /\ IF text = <<>>
               THEN s1.head = head /\ s1.fullscreenStyleElement = fullscreenStyleElement
               ELSE head \subseteq s1.head /\ Cardinality(s1.head \ head) = 1)

\* C26 witness: N, inside A, was entered with a custom style: its sibling M and the
\* siblings of its ancestors are hidden, its ancestors A and P and the store's other
\* entries are as they were, and one <style> element is in the document.
C26_Witness ==
  /\ lastCall.op = "enter" /\ lastCall.el = "N" /\ ~lastCall.had
  /\ IsConnected(Cur, "N")
  /\ style["N"] = FULLSCREEN_STYLES
  /\ style["A"] = DESIGN_MODE_STYLE
  /\ style["P"] = NoStyle
  /\ RecordedIn(Cur, elemId["N"]) = {"M", "B", "C", "hdr"}
  /\ \A x \in {"M", "B", "C", "hdr"} : style[x]["display"] = "none"
  /\ Cardinality(head) = 1

\* the display of x on the page as rendered, before any call of the manager
OriginalDisplay(x) ==
  LET st == CHOOSE st \in InitialStyles : TRUE
  IN IF st[x]["display"] # "" THEN st[x]["display"] ELSE SheetDisplay(x)

\* C27: in every reachable state, failed injections included, every element the
\* manager has set to display none and not set back is recorded, with the display
\* it had on the page, in a session that is in the store.
C27_NoSiblingLeftHidden ==
  \A x \in Elements :
    (style[x]["display"] = "none" /\ OriginalDisplay(x) # "none") =>
      \E i \in DOMAIN elementStates :
        \E j \in DOMAIN elementStates[i].state.hiddenElements :
          /\ elementStates[i].state.hiddenElements[j].element = x
          /\ elementStates[i].state.hiddenElements[j].originalDisplay
               = OriginalDisplay(x)

\* C28: whenever elementStates is empty, no <style> element the manager injected is
\* in the document and fullscreenStyleElement is null.
C28_EmptyStoreNoStyle ==
  elementStates = <<>> => (head = {} /\ fullscreenStyleElement = NULL)

\* C29: with N inside A and no session for either, toggleFullscreen(A, true, sA);
\* toggleFullscreen(N, true, sN); toggleFullscreen(N, false); toggleFullscreen(A,
\* false) leaves the 14 style properties of A and N, the display of every element
\* and the <style> elements of the document as they were, for every sA and sN.
C29_NestedEnterExitRestores ==
  \A sA \in StyleInputs, sN \in StyleInputs :
    (/\ Contains(Cur, "A", "N")
     /\ IsConnected(Cur, "N")
     /\ ~HasSession(Cur, elemId["A"])
     /\ ~HasSession(Cur, elemId["N"])) =>
      LET s1 == toggleFullscreen(Cur, "A", TRUE, sA)
          s2 == toggleFullscreen(s1, "N", TRUE, sN)
          s3 == toggleFullscreen(s2, "N", FALSE, <<>>)
          s4 == toggleFullscreen(s3, "A", FALSE, <<>>)
      IN /\ \A e \in {"A", "N"}, p \in StyleProps : s4.style[e][p] = style[e][p]
         /\ \A x \in Elements : ComputedDisplay(s4, x) = ComputedDisplay(Cur, x)
         /\ s4.head = head

====
